---- MODULE Spec2Model ----
(***************************************************************************)
(* FilmTube transcode pipeline: the catalog API handlers that feed the     *)
(* queue (handlers_films.go), the Postgres tables (queries.go and the      *)
(* schema), the Redis queue and status cache (redis.go), the R2 object     *)
(* store (r2 client) and the worker (workerLoop, ProcessJob, markFailed).  *)
(***************************************************************************)
EXTENDS Integers, Sequences, FiniteSets, TLC

\* ------------------------------------------------------------------ bounds
MaxFilms == 1
MaxRedeliver == 1
MaxTierCount == 7
MaxAssetWrites == 3
MaxSegments == 2
ListPageSize == 2

\* ------------------------------------------------------------ vocabulary
\* The callers of the API; the films of the model are created by the first.
Users == {"alice", "bob"}
Creators == {"alice"}
Workers == {"w1"}

StatusDraft == "DRAFT"
StatusUploaded == "UPLOADED"
StatusTranscoding == "TRANSCODING"
StatusReady == "READY"
StatusFailed == "FAILED"

\* A nullable column or cache entry: NULL, or Some(v).
NULL == {}
Some(v) == {v}

OriginalPath == "original"
ThumbnailPath == "thumb"
HLSPath == "hls"

\* The tiers the worker is built with (var Qualities).
DeclaredQualities == <<"360p", "720p">>

VARIABLES
    Qualities,      \* ffmpeg.Qualities, the configured tier list
    nextUUID,       \* the next value uuid.New() returns
    films,          \* table films: id -> row
    transcode_jobs, \* table transcode_jobs: set of rows
    video_assets,   \* table video_assets: set of rows
    queue,          \* Redis list filmtube:transcode:queue, head first
    cache,          \* Redis keys filmtube:film:status:<id>
    objects,        \* R2 bucket: key -> content
    uploadURLs,     \* films for which a presigned upload URL was issued
    confirm,        \* per film: where its ConfirmUpload request stands
    redelivered,    \* number of pushes on the queue by an external actor
    rejected,       \* the last request a handler refused before acting on it
    ctxDone,        \* per worker: the context was cancelled by shutdown
    wpc,            \* per worker: position in workerLoop / ProcessJob
    wfilm,          \* per worker: filmID of the running ProcessJob
    wi,             \* per worker: loop index i (1-based)
    completed,      \* per worker: completedQualities
    werr,           \* per worker: errorMsg handed to markFailed
    wthumb,         \* per worker: outcome of the thumbnail stage of the run
    wtier,          \* per worker: tiers handed to TranscodeToHLS in the run
    wfailTier,      \* per worker: index of the tier whose transcode failed
    wput,           \* per worker: keys uploaded in the run
    wlast,          \* per worker: progress last written in the run (-1: none)
    wredo,          \* per worker: the film was READY or FAILED when the run began
    tierGo,         \* per tier of the run: where the tier's goroutine stands
    parserGo,       \* per tier: where TranscodeToHLS's progress parser stands
    resultChan,     \* per tier: the values waiting in the tier's resultChan
    errChan,        \* per tier: the values waiting in the tier's errChan
    progressChan,   \* the values waiting in the run's progressChan
    delivered       \* per tier: number of values its goroutine has sent

store == <<films, transcode_jobs, video_assets>>
redis == <<queue, cache>>
api == <<uploadURLs, confirm, redelivered, nextUUID, rejected>>
wloc == <<wfilm, wi, completed, werr, wthumb, wtier, wfailTier, wput, wlast, wredo>>
goroutines == <<tierGo, parserGo, resultChan, errChan, progressChan, delivered>>
vars == <<Qualities, store, redis, objects, api, ctxDone, wpc, wloc, goroutines>>

FilmIDs == DOMAIN films

\* ---------------------------------------------------------- object keys
OriginalKey(filmID) == <<OriginalPath, filmID, "source.mp4">>
ThumbnailKey(filmID) == <<ThumbnailPath, filmID, "poster.jpg">>
MasterKey(filmID) == <<HLSPath, filmID, "master.m3u8">>
HLSFileKey(filmID, quality, filename) == <<HLSPath, filmID, quality, filename>>

GetPublicURL(key) == <<"publicURL">> \o key
GetHLSMasterURL(filmID) == GetPublicURL(MasterKey(filmID))
GetThumbnailURL(filmID) == GetPublicURL(ThumbnailKey(filmID))

UploadFile(objs, key, content) ==
    [k \in DOMAIN objs \cup {key} |-> IF k = key THEN content ELSE objs[k]]

\* ------------------------------------------------------------- queries
UpdateFilmStatus(fs, id, status) ==
    [f \in DOMAIN fs |-> IF f = id THEN [fs[f] EXCEPT !.status = status] ELSE fs[f]]

UpdateFilmHLS(fs, id, masterURL, thumbnailURL) ==
    [f \in DOMAIN fs |->
        IF f = id
        THEN [fs[f] EXCEPT !.hls_master_url = Some(masterURL),
                           !.thumbnail_url = Some(thumbnailURL),
                           !.status = StatusReady]
        ELSE fs[f]]

PublishFilmQuery(fs, id) ==
    [f \in DOMAIN fs |->
        IF f = id /\ fs[f].status = StatusDraft
        THEN [fs[f] EXCEPT !.published = TRUE, !.status = StatusReady]
        ELSE fs[f]]

\* The INSERT against a table whose film_id column has no UNIQUE constraint.
CanCreateTranscodeJobNoUnique(js, job) ==
    \A r \in js : r.id # job.id

\* INSERT INTO transcode_jobs; film_id is UNIQUE.
CanCreateTranscodeJob(js, job) ==
    \A r \in js : r.id # job.id /\ r.film_id # job.film_id

CreateTranscodeJob(js, job) == js \cup {job}

\* The UPDATE keyed by film_id and with the error column left out of SET.
UpdateTranscodeJobStatusNoError(js, id, status, progress, errorMsg) ==
    { IF r.film_id = id
      THEN [r EXCEPT !.status = status, !.progress = progress]
      ELSE r : r \in js }

\* UPDATE transcode_jobs ... WHERE id = $6
UpdateTranscodeJobStatus(js, id, status, progress, errorMsg) ==
    { IF r.id = id
      THEN [r EXCEPT !.status = status, !.progress = progress,
                     !.error = Some(errorMsg)]
      ELSE r : r \in js }

\* INSERT INTO video_assets with neither the UNIQUE(film_id, quality)
\* constraint nor the ON CONFLICT clause.
CreateVideoAssetPlainInsert(va, asset) == va \cup {asset}

\* INSERT INTO video_assets ... ON CONFLICT (film_id, quality) DO UPDATE SET
\* hls_index_url, size_bytes.  A clash on the primary key alone is an error.
CreateVideoAsset(va, asset) ==
    IF \E r \in va : r.film_id = asset.film_id /\ r.quality = asset.quality
    THEN { IF r.film_id = asset.film_id /\ r.quality = asset.quality
           THEN [r EXCEPT !.hls_index_url = asset.hls_index_url,
                          !.size_bytes = asset.size_bytes]
           ELSE r : r \in va }
    ELSE IF \E r \in va : r.id = asset.id THEN va
    ELSE va \cup {asset}

\* ---------------------------------------------------------------- redis
\* uuid.Nil
UUIDNil == 0

\* filmID.String(): the text of an id, as it is stored in the Redis list.
UUIDString(id) == <<"uuid", id>>

\* uuid.Parse: the id a text denotes, or an error (NULL).
UUIDParse(text) == IF text[1] = "uuid" THEN Some(text[2]) ELSE NULL

\* LPUSH of the id's text: the head of the list.
EnqueueTranscodeJob(q, filmID) == <<UUIDString(filmID)>> \o q

SetFilmStatus(c, filmID, status) ==
    [k \in DOMAIN c \cup {filmID} |-> IF k = filmID THEN status ELSE c[k]]


\* ------------------------------------------------------------ fresh state
NoRows == [f \in {} |-> NULL]

TierConfigs == { SubSeq(DeclaredQualities, 1, n) : n \in 0..Len(DeclaredQualities) }

Init ==
    /\ Qualities \in TierConfigs
    /\ nextUUID = 1
    /\ films = NoRows
    /\ transcode_jobs = {}
    /\ video_assets = {}
    /\ queue = <<>>
    /\ cache = NoRows
    /\ objects = NoRows
    /\ uploadURLs = {}
    /\ confirm = NoRows
    /\ redelivered = 0
    /\ rejected = NULL
    /\ ctxDone = [w \in Workers |-> FALSE]
    /\ wpc = [w \in Workers |-> "idle"]
    /\ wfilm = [w \in Workers |-> 0]
    /\ wi = [w \in Workers |-> 1]
    /\ completed = [w \in Workers |-> <<>>]
    /\ werr = [w \in Workers |-> ""]
    /\ wthumb = [w \in Workers |-> "none"]
    /\ wtier = [w \in Workers |-> {}]
    /\ wfailTier = [w \in Workers |-> 0]
    /\ wput = [w \in Workers |-> {}]
    /\ wlast = [w \in Workers |-> -1]
    /\ wredo = [w \in Workers |-> FALSE]
    /\ tierGo = NoRows
    /\ parserGo = NoRows
    /\ resultChan = NoRows
    /\ errChan = NoRows
    /\ progressChan = <<>>
    /\ delivered = NoRows

worker == <<ctxDone, wpc, wloc, goroutines>>

\* ------------------------------------------------------------ catalog API
\* POST /api/films
CreateFilm(userID) ==
    /\ Cardinality(FilmIDs) < MaxFilms
    /\ films' = [f \in FilmIDs \cup {nextUUID} |->
                    IF f = nextUUID
                    THEN [status |-> StatusDraft, hls_master_url |-> NULL,
                          thumbnail_url |-> NULL, created_by_id |-> userID,
                          published |-> FALSE]
                    ELSE films[f]]
    /\ confirm' = [f \in FilmIDs \cup {nextUUID} |->
                    IF f = nextUUID THEN "none" ELSE confirm[f]]
    /\ nextUUID' = nextUUID + 1
    /\ UNCHANGED <<Qualities, transcode_jobs, video_assets, redis, objects,
                   uploadURLs, redelivered,
                   rejected, worker>>

\* The upload-url handler without its ownership check.
GetUploadURLAnyUser(userID, filmID) ==
    /\ filmID \in FilmIDs
    /\ uploadURLs' = uploadURLs \cup {filmID}
    /\ \E txOK \in BOOLEAN :
          films' = IF txOK THEN UpdateFilmStatus(films, filmID, StatusUploaded)
                   ELSE films
    /\ UNCHANGED <<Qualities, transcode_jobs, video_assets, redis, objects,
                   confirm, redelivered, nextUUID, rejected, worker>>

\* POST /api/films/:id/upload-url
GetUploadURL(userID, filmID) ==
    /\ filmID \in FilmIDs
    /\ films[filmID].created_by_id = userID
    /\ uploadURLs' = uploadURLs \cup {filmID}
    /\ \E txOK \in BOOLEAN :
          films' = IF txOK THEN UpdateFilmStatus(films, filmID, StatusUploaded)
                   ELSE films
    /\ UNCHANGED <<Qualities, transcode_jobs, video_assets, redis, objects,
                   confirm, redelivered, nextUUID,
                   rejected, worker>>

\* The browser PUTs the source to the presigned URL.
ClientUpload(filmID) ==
    /\ filmID \in uploadURLs
    /\ objects' = UploadFile(objects, OriginalKey(filmID), "source")
    /\ UNCHANGED <<Qualities, store, redis, api, worker>>

\* POST /api/films/:id/confirm-upload, up to the INSERT of the job row.
ConfirmUploadCreate(userID, filmID) ==
    /\ filmID \in FilmIDs
    /\ films[filmID].created_by_id = userID
    /\ LET job == [id |-> nextUUID, film_id |-> filmID,
                   status |-> StatusUploaded, progress |-> 0, error |-> NULL]
       IN /\ CanCreateTranscodeJob(transcode_jobs, job)
          /\ transcode_jobs' = CreateTranscodeJob(transcode_jobs, job)
    /\ nextUUID' = nextUUID + 1
    /\ confirm' = [confirm EXCEPT ![filmID] = "enqueue"]
    /\ UNCHANGED <<Qualities, films, video_assets, redis, objects,
                   uploadURLs, redelivered,
                   rejected, worker>>

ConfirmUploadEnqueue(filmID) ==
    /\ filmID \in FilmIDs
    /\ confirm[filmID] = "enqueue"
    /\ \/ /\ queue' = EnqueueTranscodeJob(queue, filmID)
          /\ confirm' = [confirm EXCEPT ![filmID] = "update"]
       \/ /\ confirm' = [confirm EXCEPT ![filmID] = "failed"]
          /\ UNCHANGED queue
    /\ UNCHANGED <<Qualities, store, cache, objects, uploadURLs, redelivered,
                   nextUUID,
                   rejected, worker>>

ConfirmUploadFilm(filmID) ==
    /\ filmID \in FilmIDs
    /\ confirm[filmID] = "update"
    /\ \E tx \in {"nobegin", "execfail", "ok"} :
          /\ films' = IF tx = "ok"
                      THEN UpdateFilmStatus(films, filmID, StatusTranscoding)
                      ELSE films
          /\ confirm' = [confirm EXCEPT ![filmID] =
                            IF tx = "nobegin" THEN "failed" ELSE "cache"]
    /\ UNCHANGED <<Qualities, transcode_jobs, video_assets, redis, objects,
                   uploadURLs, redelivered, nextUUID,
                   rejected, worker>>

ConfirmUploadCache(filmID) ==
    /\ filmID \in FilmIDs
    /\ confirm[filmID] = "cache"
    /\ \E ok \in BOOLEAN :
          cache' = IF ok THEN SetFilmStatus(cache, filmID, StatusTranscoding)
                   ELSE cache
    /\ confirm' = [confirm EXCEPT ![filmID] = "ok"]
    /\ UNCHANGED <<Qualities, store, queue, objects, uploadURLs, redelivered,
                   nextUUID,
                   rejected, worker>>

\* POST /api/films/:id/publish
PublishFilm(userID, filmID) ==
    /\ filmID \in FilmIDs
    /\ films[filmID].created_by_id = userID
    /\ films[filmID].status = StatusReady
    /\ films' = PublishFilmQuery(films, filmID)
    /\ UNCHANGED <<Qualities, transcode_jobs, video_assets, redis, objects,
                   api, worker>>

\* A request a handler answers with an error before it has acted.
Refusal(handler, userID, filmID, code) ==
    Some([handler |-> handler, user |-> userID, film |-> filmID, code |-> code])

\* upload-url by a user who is not the film's creator: 403.
GetUploadURLForbidden(userID, filmID) ==
    /\ filmID \in FilmIDs
    /\ films[filmID].created_by_id # userID
    /\ rejected' = Refusal("GetUploadURL", userID, filmID, 403)
    /\ UNCHANGED <<Qualities, store, redis, objects, uploadURLs, confirm,
                   redelivered, nextUUID, worker>>

\* confirm-upload by a user who is not the film's creator: 403.
ConfirmUploadForbidden(userID, filmID) ==
    /\ filmID \in FilmIDs
    /\ films[filmID].created_by_id # userID
    /\ rejected' = Refusal("ConfirmUpload", userID, filmID, 403)
    /\ UNCHANGED <<Qualities, store, redis, objects, uploadURLs, confirm,
                   redelivered, nextUUID, worker>>

\* confirm-upload by the creator whose INSERT of the job row fails on a
\* constraint: 500 "failed to create transcode job".
ConfirmUploadDuplicate(userID, filmID) ==
    /\ filmID \in FilmIDs
    /\ films[filmID].created_by_id = userID
    /\ ~CanCreateTranscodeJob(transcode_jobs,
                              [id |-> nextUUID, film_id |-> filmID,
                               status |-> StatusUploaded, progress |-> 0,
                               error |-> NULL])
    /\ rejected' = Refusal("ConfirmUpload", userID, filmID, 500)
    /\ UNCHANGED <<Qualities, store, redis, objects, uploadURLs, confirm,
                   redelivered, nextUUID, worker>>

\* An external actor puts an already confirmed film on the queue again.
Redeliver(filmID) ==
    /\ filmID \in FilmIDs
    /\ confirm[filmID] \in {"update", "cache", "ok"}
    /\ redelivered < MaxRedeliver
    /\ redelivered' = redelivered + 1
    /\ queue' = EnqueueTranscodeJob(queue, filmID)
    /\ UNCHANGED <<Qualities, store, cache, objects, uploadURLs, confirm,
                   nextUUID,
                   rejected, worker>>

\* ----------------------------------------------------------------- worker
\* A call that takes the worker's ctx fails once the ctx is cancelled, and may
\* fail at any time for reasons of its own.
Outcomes(w) == IF ctxDone[w] THEN {FALSE} ELSE BOOLEAN

\* BeginTx, the statement and Commit of one film transaction.
TxOutcomes(w) ==
    IF ctxDone[w] THEN {"nobegin"} ELSE {"nobegin", "execfail", "commitfail", "ok"}

Goto(w, pc) == wpc' = [wpc EXCEPT ![w] = pc]

\* The progress written after tier i (0-based) of n has completed.
TierProgress(i, n) == 20 + (i + 1) * (60 \div n)

\* The maps of GenerateMasterPlaylist; a missing key reads as the zero value.
bitrates(q) ==
    CASE q = "360p" -> 800000 [] q = "720p" -> 2500000 [] OTHER -> 0

resolutions(q) ==
    CASE q = "360p" -> "640x360" [] q = "720p" -> "1280x720" [] OTHER -> ""

\* One "#EXT-X-STREAM-INF" line and one URI line, "%s/%s/index.m3u8", per
\* quality; a line is the tuple of its fields, a URI the tuple of its segments.
RECURSIVE StreamEntries(_)
StreamEntries(qualities) ==
    IF qualities = <<>> THEN <<>>
    ELSE << <<"#EXT-X-STREAM-INF", bitrates(Head(qualities)),
              resolutions(Head(qualities))>>,
            <<Head(qualities), Head(qualities), "index.m3u8">> >>
         \o StreamEntries(Tail(qualities))

\* The manifest built by a loop that starts at the second quality.
GenerateMasterPlaylistSkipsFirst(filmID, qualities) ==
    << <<"#EXTM3U">>, <<"#EXT-X-VERSION:3">> >>
        \o (IF qualities = <<>> THEN <<>> ELSE StreamEntries(Tail(qualities)))

\* master.m3u8 as its list of lines.
GenerateMasterPlaylist(filmID, qualities) ==
    << <<"#EXTM3U">>, <<"#EXT-X-VERSION:3">> >> \o StreamEntries(qualities)

IndexData == "index.m3u8 (VOD, seg_00000.ts)"

JobsOf(filmID) == {r \in transcode_jobs : r.film_id = filmID}

\* The film's processing has ended: its film row, or its job row, is READY or
\* FAILED.
Terminal(filmID) ==
    /\ filmID \in FilmIDs
    /\ \/ films[filmID].status \in {StatusReady, StatusFailed}
       \/ \E r \in JobsOf(filmID) : r.status \in {StatusReady, StatusFailed}

\* workerLoop: ctx.Done() is taken before the default branch.
WorkerStop(w) ==
    /\ wpc[w] = "idle"
    /\ ctxDone[w]
    /\ Goto(w, "stopped")
    /\ UNCHANGED <<Qualities, store, redis, objects, api, ctxDone, wloc, goroutines>>

\* A poll that, finding the queue silent, takes the oldest UPLOADED row from
\* the jobs table instead (GetNextTranscodeJob) and marks it TRANSCODING.
DequeueNoWorkPollsTable(w) ==
    /\ wpc[w] = "idle"
    /\ ~ctxDone[w]
    /\ transcode_jobs' =
          { IF r.status = StatusUploaded
            THEN [r EXCEPT !.status = StatusTranscoding] ELSE r : r \in transcode_jobs }
    /\ UNCHANGED <<Qualities, films, video_assets, redis, objects, api, worker>>

\* BRPop times out on an empty list (redis: nil), or fails: continue.
DequeueNoWork(w) ==
    /\ wpc[w] = "idle"
    /\ ~ctxDone[w]
    /\ UNCHANGED vars

\* A dequeue that reads the tail of the list (LINDEX -1) and leaves it there.
DequeuePeek(w) ==
    /\ wpc[w] = "idle"
    /\ ~ctxDone[w]
    /\ queue # <<>>
    /\ wfilm' = [wfilm EXCEPT ![w] = queue[Len(queue)][2]]
    /\ wredo' = [wredo EXCEPT ![w] = Terminal(queue[Len(queue)][2])]
    /\ Goto(w, "start")
    /\ UNCHANGED <<Qualities, store, redis, objects, api, ctxDone, wi, completed,
                   werr, wthumb, wtier, wfailTier, wput, wlast, goroutines>>

\* A loop that starts ProcessJob in a goroutine of its own and polls again at
\* once: the dequeue does not wait for the run in progress.
DequeueWhileRunning(w) ==
    /\ wpc[w] \notin {"stopped", "crashed"}
    /\ ~ctxDone[w]
    /\ queue # <<>>
    /\ queue' = SubSeq(queue, 1, Len(queue) - 1)
    /\ wfilm' = [wfilm EXCEPT ![w] = queue[Len(queue)][2]]
    /\ wredo' = [wredo EXCEPT ![w] = Terminal(queue[Len(queue)][2])]
    /\ Goto(w, "start")
    /\ UNCHANGED <<Qualities, store, cache, objects, api, ctxDone, wi, completed,
                   werr, wthumb, wtier, wfailTier, wput, wlast, goroutines>>

\* A dequeue that pops at the end the API pushes on (LPOP).
DequeueTranscodeJobFromHead(w) ==
    /\ wpc[w] = "idle"
    /\ ~ctxDone[w]
    /\ queue # <<>>
    /\ queue' = Tail(queue)
    /\ wfilm' = [wfilm EXCEPT ![w] = Head(queue)[2]]
    /\ wredo' = [wredo EXCEPT ![w] = Terminal(Head(queue)[2])]
    /\ Goto(w, "start")
    /\ UNCHANGED <<Qualities, store, cache, objects, api, ctxDone, wi, completed,
                   werr, wthumb, wtier, wfailTier, wput, wlast, goroutines>>

\* A dequeue that takes whatever the text carries for an id and starts the run
\* without looking at uuid.Parse's error or at the nil id.
DequeueTranscodeJobUnchecked(w) ==
    /\ wpc[w] = "idle"
    /\ ~ctxDone[w]
    /\ queue # <<>>
    /\ queue' = SubSeq(queue, 1, Len(queue) - 1)
    /\ wfilm' = [wfilm EXCEPT ![w] = queue[Len(queue)][2]]
    /\ wredo' = [wredo EXCEPT ![w] = Terminal(queue[Len(queue)][2])]
    /\ Goto(w, "start")
    /\ UNCHANGED <<Qualities, store, cache, objects, api, ctxDone, wi, completed,
                   werr, wthumb, wtier, wfailTier, wput, wlast, goroutines>>

\* BRPop hands the tail of the list to this worker.  A text that uuid.Parse
\* rejects, or the nil id, makes the loop continue (main.go:93-102); with any
\* other id the worker goes on to its call of ProcessJob.
DequeueTranscodeJob(w) ==
    /\ wpc[w] = "idle"
    /\ ~ctxDone[w]
    /\ queue # <<>>
    /\ queue' = SubSeq(queue, 1, Len(queue) - 1)
    /\ LET parsed == UUIDParse(queue[Len(queue)])
       IN IF parsed = NULL \/ parsed = Some(UUIDNil)
          THEN UNCHANGED <<wfilm, wredo, wpc>>
          ELSE /\ wfilm' = [wfilm EXCEPT ![w] = queue[Len(queue)][2]]
               /\ wredo' = [wredo EXCEPT ![w] = Terminal(queue[Len(queue)][2])]
               /\ Goto(w, "start")
    /\ UNCHANGED <<Qualities, store, cache, objects, api, ctxDone, wi, completed,
                   werr, wthumb, wtier, wfailTier, wput, wlast, goroutines>>

\* p.queries.UpdateTranscodeJobStatus(ctx, filmID, ...) and its result.
JobWrite(w, ok, status, progress, errorMsg) ==
    /\ transcode_jobs' =
          IF ok THEN UpdateTranscodeJobStatus(transcode_jobs, wfilm[w], status,
                                              progress, errorMsg)
          ELSE transcode_jobs
    /\ wlast' = IF ok THEN [wlast EXCEPT ![w] = progress] ELSE wlast

\* A stage failed: ProcessJob calls markFailed with the message.
Fail(w, errorMsg) ==
    /\ werr' = [werr EXCEPT ![w] = errorMsg]
    /\ Goto(w, "markFailed")

\* main.go:107 the call of ProcessJob, and processor.go:40 its first status
\* write; the write's failure returns at once.
ProcessJobStart(w) ==
    /\ wpc[w] = "start"
    /\ \E ok \in Outcomes(w) :
          /\ JobWrite(w, ok, StatusTranscoding, 10, "")
          /\ Goto(w, IF ok THEN "download" ELSE "returnErr")
    /\ UNCHANGED <<Qualities, films, video_assets, redis, objects, api, ctxDone,
                   wfilm, wi, completed, werr, wthumb, wtier, wfailTier, wput, wredo, goroutines>>

\* processor.go:46 DownloadOriginalVideo
ProcessJobDownload(w) ==
    /\ wpc[w] = "download"
    /\ \E ok \in Outcomes(w) :
          IF ok /\ OriginalKey(wfilm[w]) \in DOMAIN objects
          THEN Goto(w, "probe") /\ UNCHANGED werr
          ELSE Fail(w, "failed to download video")
    /\ UNCHANGED <<Qualities, store, redis, objects, api, ctxDone, wfilm, wi,
                   completed, wthumb, wtier, wfailTier, wput, wlast, wredo, goroutines>>

\* processor.go:55-65 GetVideoInfo, then the write of progress 20, whose
\* result is dropped.
ProcessJobProbe(w) ==
    /\ wpc[w] = "probe"
    /\ \/ /\ Fail(w, "failed to get video info")
          /\ UNCHANGED <<transcode_jobs, wlast>>
       \/ /\ \E ok \in Outcomes(w) : JobWrite(w, ok, StatusTranscoding, 20, "")
          /\ Goto(w, "thumbnail")
          /\ UNCHANGED werr
    /\ UNCHANGED <<Qualities, films, video_assets, redis, objects, api, ctxDone,
                   wfilm, wi, completed, wthumb, wtier, wfailTier, wput, wredo, goroutines>>

\* processor.go:68-78 GenerateThumbnail and the upload of poster.jpg; both
\* failures are logged only.  Then the tier loop starts, or is skipped.
ProcessJobThumbnail(w) ==
    /\ wpc[w] = "thumbnail"
    /\ \/ /\ wthumb' = [wthumb EXCEPT ![w] = "genfail"]
          /\ UNCHANGED <<objects, wput>>
       \/ \E ok \in Outcomes(w) :
             IF ok
             THEN /\ objects' = UploadFile(objects, ThumbnailKey(wfilm[w]), "jpeg")
                  /\ wput' = [wput EXCEPT ![w] = @ \cup {ThumbnailKey(wfilm[w])}]
                  /\ wthumb' = [wthumb EXCEPT ![w] = "ok"]
             ELSE /\ wthumb' = [wthumb EXCEPT ![w] = "upfail"]
                  /\ UNCHANGED <<objects, wput>>
    /\ wi' = [wi EXCEPT ![w] = 1]
    /\ Goto(w, IF Len(Qualities) >= 1 THEN "transcode" ELSE "master")
    /\ UNCHANGED <<Qualities, store, redis, api, ctxDone, wfilm, completed,
                   werr, wtier, wfailTier, wlast, wredo, goroutines>>

\* processor.go:91-104 the tier's goroutine runs TranscodeToHLS and delivers
\* on errChan or resultChan.
ProcessJobTranscode(w) ==
    /\ wpc[w] = "transcode"
    /\ wtier' = [wtier EXCEPT ![w] = @ \cup {wi[w]}]
    /\ \/ /\ Fail(w, "failed to transcode")
          /\ wfailTier' = [wfailTier EXCEPT ![w] = wi[w]]
       \/ /\ Goto(w, "uploadHLS")
          /\ UNCHANGED <<werr, wfailTier>>
    /\ UNCHANGED <<Qualities, store, redis, objects, api, ctxDone, wfilm, wi,
                   completed, wthumb, wput, wlast, wredo, goroutines>>

\* processor.go:106-113 uploadHLSFiles puts the tier's index.m3u8.
ProcessJobUploadHLS(w) ==
    /\ wpc[w] = "uploadHLS"
    /\ LET key == HLSFileKey(wfilm[w], Qualities[wi[w]], "index.m3u8")
       IN \E ok \in Outcomes(w) :
             IF ok
             THEN /\ objects' = UploadFile(objects, key, IndexData)
                  /\ wput' = [wput EXCEPT ![w] = @ \cup {key}]
                  /\ completed' = [completed EXCEPT ![w] = Append(@, Qualities[wi[w]])]
                  /\ Goto(w, "tierProgress")
                  /\ UNCHANGED werr
             ELSE /\ Fail(w, "failed to upload HLS files")
                  /\ UNCHANGED <<objects, wput, completed>>
    /\ UNCHANGED <<Qualities, store, redis, api, ctxDone, wfilm, wi, wthumb,
                   wtier, wfailTier, wlast, wredo, goroutines>>

\* processor.go:116-121 the tier's progress write (result dropped) and the
\* loop's next round.
ProcessJobTierProgress(w) ==
    /\ wpc[w] = "tierProgress"
    /\ \E ok \in Outcomes(w) :
          JobWrite(w, ok, StatusTranscoding,
                   TierProgress(wi[w] - 1, Len(Qualities)), "")
    /\ wi' = [wi EXCEPT ![w] = @ + 1]
    /\ Goto(w, IF wi[w] < Len(Qualities) THEN "transcode" ELSE "master")
    /\ UNCHANGED <<Qualities, films, video_assets, redis, objects, api, ctxDone,
                   wfilm, completed, werr, wthumb, wtier, wfailTier, wput, wredo, goroutines>>

\* The manifest stage with the upload's error dropped like the progress
\* writes' errors: the run goes on to the film update either way.
ProcessJobMasterDropsError(w) ==
    /\ wpc[w] = "master"
    /\ \E ok \in Outcomes(w) :
          IF ok
          THEN /\ objects' = UploadFile(objects, MasterKey(wfilm[w]),
                                        GenerateMasterPlaylist(wfilm[w], completed[w]))
               /\ wput' = [wput EXCEPT ![w] = @ \cup {MasterKey(wfilm[w])}]
          ELSE UNCHANGED <<objects, wput>>
    /\ Goto(w, "updateFilm")
    /\ UNCHANGED <<Qualities, store, redis, api, ctxDone, wfilm, wi, completed,
                   werr, wthumb, wtier, wfailTier, wlast, wredo, goroutines>>

\* processor.go:123-136 GenerateMasterPlaylist (which returns no error) and
\* the upload of master.m3u8.
ProcessJobMaster(w) ==
    /\ wpc[w] = "master"
    /\ \E ok \in Outcomes(w) :
          IF ok
          THEN /\ objects' = UploadFile(objects, MasterKey(wfilm[w]),
                                        GenerateMasterPlaylist(wfilm[w], completed[w]))
               /\ wput' = [wput EXCEPT ![w] = @ \cup {MasterKey(wfilm[w])}]
               /\ Goto(w, "updateFilm")
               /\ UNCHANGED werr
          ELSE /\ Fail(w, "failed to upload master playlist")
               /\ UNCHANGED <<objects, wput>>
    /\ UNCHANGED <<Qualities, store, redis, api, ctxDone, wfilm, wi, completed,
                   wthumb, wtier, wfailTier, wlast, wredo, goroutines>>

\* processor.go:138-148 the film transaction.  BeginTx's error is dropped, so
\* a failed BeginTx leaves tx nil and UpdateFilmHLS dereferences it.
ProcessJobUpdateFilm(w) ==
    /\ wpc[w] = "updateFilm"
    /\ \E tx \in TxOutcomes(w) :
          /\ films' = IF tx = "ok"
                      THEN UpdateFilmHLS(films, wfilm[w], GetHLSMasterURL(wfilm[w]),
                                         GetThumbnailURL(wfilm[w]))
                      ELSE films
          /\ IF tx = "execfail"
             THEN Fail(w, "failed to update film")
             ELSE Goto(w, IF tx = "nobegin" THEN "crashed" ELSE "jobReady")
                  /\ UNCHANGED werr
    /\ UNCHANGED <<Qualities, transcode_jobs, video_assets, redis, objects, api,
                   ctxDone, wfilm, wi, completed, wthumb, wtier, wfailTier, wput,
                   wlast, wredo, goroutines>>

\* processor.go:151 the READY/100 write, result dropped.
ProcessJobReady(w) ==
    /\ wpc[w] = "jobReady"
    /\ \E ok \in Outcomes(w) : JobWrite(w, ok, StatusReady, 100, "")
    /\ Goto(w, "cacheReady")
    /\ UNCHANGED <<Qualities, films, video_assets, redis, objects, api, ctxDone,
                   wfilm, wi, completed, werr, wthumb, wtier, wfailTier, wput, wredo, goroutines>>

\* processor.go:154-157 the cache write, result dropped; return nil.
ProcessJobCache(w) ==
    /\ wpc[w] = "cacheReady"
    /\ \E ok \in Outcomes(w) :
          cache' = IF ok THEN SetFilmStatus(cache, wfilm[w], StatusReady) ELSE cache
    /\ Goto(w, "returnNil")
    /\ UNCHANGED <<Qualities, store, queue, objects, api, ctxDone, wloc, goroutines>>

\* processor.go:172-175 markFailed: the job write and the cache write, both
\* results dropped.
markFailedJob(w) ==
    /\ wpc[w] = "markFailed"
    /\ \E ok \in Outcomes(w) : JobWrite(w, ok, StatusFailed, 0, werr[w])
    /\ \E ok \in Outcomes(w) :
          cache' = IF ok THEN SetFilmStatus(cache, wfilm[w], StatusFailed) ELSE cache
    /\ Goto(w, "markFailedFilm")
    /\ UNCHANGED <<Qualities, films, video_assets, queue, objects, api, ctxDone,
                   wfilm, wi, completed, werr, wthumb, wtier, wfailTier, wput, wredo, goroutines>>

\* processor.go:177-180 markFailed: the film transaction, with BeginTx's error
\* dropped as above; then ProcessJob returns its error.
markFailedFilm(w) ==
    /\ wpc[w] = "markFailedFilm"
    /\ \E tx \in TxOutcomes(w) :
          /\ films' = IF tx = "ok"
                      THEN UpdateFilmStatus(films, wfilm[w], StatusFailed)
                      ELSE films
          /\ Goto(w, IF tx = "nobegin" THEN "crashed" ELSE "returnErr")
    /\ UNCHANGED <<Qualities, transcode_jobs, video_assets, redis, objects, api,
                   ctxDone, wloc, goroutines>>

\* A loop that pushes the film id back on the queue when ProcessJob returned
\* an error.
WorkerContinueRequeues(w) ==
    /\ wpc[w] \in {"returnNil", "returnErr"}
    /\ queue' = IF wpc[w] = "returnErr"
                THEN EnqueueTranscodeJob(queue, wfilm[w]) ELSE queue
    /\ Goto(w, "idle")
    /\ wfilm' = [wfilm EXCEPT ![w] = 0]
    /\ wi' = [wi EXCEPT ![w] = 1]
    /\ completed' = [completed EXCEPT ![w] = <<>>]
    /\ werr' = [werr EXCEPT ![w] = ""]
    /\ wthumb' = [wthumb EXCEPT ![w] = "none"]
    /\ wtier' = [wtier EXCEPT ![w] = {}]
    /\ wfailTier' = [wfailTier EXCEPT ![w] = 0]
    /\ wput' = [wput EXCEPT ![w] = {}]
    /\ wlast' = [wlast EXCEPT ![w] = -1]
    /\ wredo' = [wredo EXCEPT ![w] = FALSE]
    /\ UNCHANGED <<Qualities, store, cache, objects, api, ctxDone, goroutines>>

\* main.go:107-109 ProcessJob has returned: log an error, next iteration.
WorkerContinue(w) ==
    /\ wpc[w] \in {"returnNil", "returnErr"}
    /\ Goto(w, "idle")
    /\ wfilm' = [wfilm EXCEPT ![w] = 0]
    /\ wi' = [wi EXCEPT ![w] = 1]
    /\ completed' = [completed EXCEPT ![w] = <<>>]
    /\ werr' = [werr EXCEPT ![w] = ""]
    /\ wthumb' = [wthumb EXCEPT ![w] = "none"]
    /\ wtier' = [wtier EXCEPT ![w] = {}]
    /\ wfailTier' = [wfailTier EXCEPT ![w] = 0]
    /\ wput' = [wput EXCEPT ![w] = {}]
    /\ wlast' = [wlast EXCEPT ![w] = -1]
    /\ wredo' = [wredo EXCEPT ![w] = FALSE]
    /\ UNCHANGED <<Qualities, store, redis, objects, api, ctxDone, goroutines>>

\* main.go:70-75 SIGINT/SIGTERM: main cancels the worker's context.
Shutdown(w) ==
    /\ ~ctxDone[w]
    /\ ctxDone' = [ctxDone EXCEPT ![w] = TRUE]
    /\ UNCHANGED <<Qualities, store, redis, objects, api, wpc, wloc, goroutines>>

ProcessJob(w) ==
    \/ ProcessJobStart(w)
    \/ ProcessJobDownload(w)
    \/ ProcessJobProbe(w)
    \/ ProcessJobThumbnail(w)
    \/ ProcessJobTranscode(w)
    \/ ProcessJobUploadHLS(w)
    \/ ProcessJobTierProgress(w)
    \/ ProcessJobMaster(w)
    \/ ProcessJobUpdateFilm(w)
    \/ ProcessJobReady(w)
    \/ ProcessJobCache(w)
    \/ markFailedJob(w)
    \/ markFailedFilm(w)

workerLoop(w) ==
    \/ WorkerStop(w)
    \/ DequeueNoWork(w)
    \/ DequeueTranscodeJob(w)
    \/ ProcessJob(w)
    \/ WorkerContinue(w)

Next ==
    \/ \E u \in Creators : CreateFilm(u)
    \/ \E u \in Users, f \in FilmIDs : GetUploadURL(u, f)
    \/ \E f \in FilmIDs : ClientUpload(f)
    \/ \E u \in Users, f \in FilmIDs : ConfirmUploadCreate(u, f)
    \/ \E f \in FilmIDs : ConfirmUploadEnqueue(f)
    \/ \E f \in FilmIDs : ConfirmUploadFilm(f)
    \/ \E f \in FilmIDs : ConfirmUploadCache(f)
    \/ \E u \in Users, f \in FilmIDs : PublishFilm(u, f)
    \/ \E f \in FilmIDs : Redeliver(f)
    \/ \E w \in Workers : Shutdown(w)
    \/ \E w \in Workers : workerLoop(w)

Spec == Init /\ [][Next]_vars

\* The worker's goroutine is scheduled as long as it can take a step.
FairSpec == Spec /\ \A w \in Workers : WF_vars(workerLoop(w))

\* ------------------------------------------------------------ the handlers
\* The upload handlers alone, with the requests they refuse.
ApiNext ==
    \/ \E u \in Creators : CreateFilm(u)
    \/ \E u \in Users, f \in FilmIDs : GetUploadURL(u, f)
    \/ \E u \in Users, f \in FilmIDs : GetUploadURLForbidden(u, f)
    \/ \E f \in FilmIDs : ClientUpload(f)
    \/ \E u \in Users, f \in FilmIDs : ConfirmUploadCreate(u, f)
    \/ \E u \in Users, f \in FilmIDs : ConfirmUploadForbidden(u, f)
    \/ \E u \in Users, f \in FilmIDs : ConfirmUploadDuplicate(u, f)
    \/ \E f \in FilmIDs : ConfirmUploadEnqueue(f)
    \/ \E f \in FilmIDs : ConfirmUploadFilm(f)
    \/ \E f \in FilmIDs : ConfirmUploadCache(f)

ApiSpec == Init /\ [][ApiNext]_vars

\* ------------------------------------------------------- the assets table
\* CreateVideoAsset applied to rows of any declared quality, with either of
\* two URLs and two sizes, for a film that exists (film_id REFERENCES films).
AssetURLs(filmID, quality) ==
    { GetPublicURL(HLSFileKey(filmID, quality, name)) :
          name \in {"index.m3u8", "playlist.m3u8"} }

AssetSizes == {1024, 2048}

WriteVideoAsset(filmID, quality, url, size) ==
    /\ filmID \in FilmIDs
    /\ nextUUID <= MaxFilms + MaxAssetWrites
    /\ video_assets' =
          CreateVideoAsset(video_assets,
                           [id |-> nextUUID, film_id |-> filmID, quality |-> quality,
                            hls_index_url |-> url, size_bytes |-> size])
    /\ nextUUID' = nextUUID + 1
    /\ UNCHANGED <<Qualities, films, transcode_jobs, redis, objects, uploadURLs,
                   confirm, redelivered, rejected, worker>>

AssetNext ==
    \/ \E u \in Creators : CreateFilm(u)
    \/ \E f \in FilmIDs : \E i \in DOMAIN DeclaredQualities :
          \E url \in AssetURLs(f, DeclaredQualities[i]) : \E size \in AssetSizes :
              WriteVideoAsset(f, DeclaredQualities[i], url, size)

AssetSpec == Init /\ [][AssetNext]_vars

\* ------------------------------------------------------- the bucket client
\* DeleteFilm on a bucket that holds any set of objects under the film's three
\* prefixes.  ListPageSize stands for the number of keys one ListObjectsV2
\* response carries.
DeletePaths == <<OriginalPath, ThumbnailPath, HLSPath>>

SegmentName(k) == "seg_0000" \o ToString(k) \o ".ts"

HLSFileNames == {"index.m3u8"} \cup { SegmentName(k) : k \in 0..(MaxSegments - 1) }

BucketKeys(filmID) ==
    {OriginalKey(filmID), ThumbnailKey(filmID), MasterKey(filmID)}
        \cup { HLSFileKey(filmID, DeclaredQualities[i], name) :
                   i \in DOMAIN DeclaredQualities, name \in HLSFileNames }

KeysUnder(objs, path, filmID) ==
    {k \in DOMAIN objs : k[1] = path /\ k[2] = filmID}

\* One ListObjectsV2 call with Prefix and no ContinuationToken: one page of
\* the keys under the prefix (which keys, the model leaves open).
ListObjectsV2(objs, path, filmID) ==
    { page \in SUBSET KeysUnder(objs, path, filmID) :
          Cardinality(page) =
              IF Cardinality(KeysUnder(objs, path, filmID)) < ListPageSize
              THEN Cardinality(KeysUnder(objs, path, filmID))
              ELSE ListPageSize }

DeleteObjects(objs, keys) == [k \in DOMAIN objs \ keys |-> objs[k]]

\* Every call succeeded: each prefix's page was listed and deleted.
DeleteFilmReturnsNil(filmID) ==
    /\ \E p1 \in ListObjectsV2(objects, DeletePaths[1], filmID) :
       \E p2 \in ListObjectsV2(objects, DeletePaths[2], filmID) :
       \E p3 \in ListObjectsV2(objects, DeletePaths[3], filmID) :
          objects' = DeleteObjects(objects, p1 \cup p2 \cup p3)
    /\ UNCHANGED <<Qualities, store, redis, api, worker>>

\* The listing of prefix j failed, or a DeleteObject of its page did: the
\* earlier prefixes' pages and a part of this page are gone.
DeleteFilmReturnsErr(filmID) ==
    /\ \E j \in DOMAIN DeletePaths :
       \E page \in ListObjectsV2(objects, DeletePaths[j], filmID) :
       \E part \in SUBSET page :
          /\ part # page \/ page = {}
          /\ \E before \in SUBSET DOMAIN objects :
                /\ \A i \in 1..(j - 1) :
                      before \cap KeysUnder(objects, DeletePaths[i], filmID)
                          \in ListObjectsV2(objects, DeletePaths[i], filmID)
                /\ \A k \in before :
                      \E i \in 1..(j - 1) :
                          k \in KeysUnder(objects, DeletePaths[i], filmID)
                /\ objects' = DeleteObjects(objects, before \cup part)
    /\ UNCHANGED <<Qualities, store, redis, api, worker>>

DeleteFilm(filmID) ==
    \/ DeleteFilmReturnsNil(filmID)
    \/ DeleteFilmReturnsErr(filmID)

DeleteInit ==
    /\ Qualities = DeclaredQualities
    /\ nextUUID = MaxFilms + 1
    /\ films = NoRows
    /\ transcode_jobs = {}
    /\ video_assets = {}
    /\ queue = <<>>
    /\ cache = NoRows
    /\ \E keys \in SUBSET UNION { BucketKeys(f) : f \in 1..MaxFilms } :
          objects = [k \in keys |-> "bytes"]
    /\ uploadURLs = {}
    /\ confirm = NoRows
    /\ redelivered = 0
    /\ rejected = NULL
    /\ ctxDone = [w \in Workers |-> FALSE]
    /\ wpc = [w \in Workers |-> "idle"]
    /\ wfilm = [w \in Workers |-> 0]
    /\ wi = [w \in Workers |-> 1]
    /\ completed = [w \in Workers |-> <<>>]
    /\ werr = [w \in Workers |-> ""]
    /\ wthumb = [w \in Workers |-> "none"]
    /\ wtier = [w \in Workers |-> {}]
    /\ wfailTier = [w \in Workers |-> 0]
    /\ wput = [w \in Workers |-> {}]
    /\ wlast = [w \in Workers |-> -1]
    /\ wredo = [w \in Workers |-> FALSE]
    /\ tierGo = NoRows
    /\ parserGo = NoRows
    /\ resultChan = NoRows
    /\ errChan = NoRows
    /\ progressChan = <<>>
    /\ delivered = NoRows

DeleteNext == \E f \in 1..MaxFilms : DeleteFilm(f)

DeleteSpec == DeleteInit /\ [][DeleteNext]_vars

\* ------------------------------------------------------------ the tier loop
\* The tier loop of ProcessJob under a tier list of any length from 1 to
\* MaxTierCount: the declared tiers first, further tiers named by their number.
TierName(k) == IF k <= Len(DeclaredQualities) THEN DeclaredQualities[k] ELSE ToString(k)

TierLists == { [k \in 1..n |-> TierName(k)] : n \in 1..MaxTierCount }

\* Film 1 was created, uploaded and confirmed, every call succeeding; the
\* worker dequeued it and its run stands at the head of the tier loop.
TierLoopEntry ==
    /\ nextUUID = 3
    /\ films = (1 :> [status |-> StatusTranscoding, hls_master_url |-> NULL,
                      thumbnail_url |-> NULL, created_by_id |-> "alice",
                      published |-> FALSE])
    /\ transcode_jobs = {[id |-> 2, film_id |-> 1, status |-> StatusUploaded,
                          progress |-> 0, error |-> NULL]}
    /\ video_assets = {}
    /\ queue = <<>>
    /\ cache = (1 :> StatusTranscoding)
    /\ objects = (OriginalKey(1) :> "source" @@ ThumbnailKey(1) :> "jpeg")
    /\ uploadURLs = {1}
    /\ confirm = (1 :> "ok")
    /\ redelivered = 0
    /\ rejected = NULL
    /\ ctxDone = [w \in Workers |-> FALSE]
    /\ wpc = [w \in Workers |-> "transcode"]
    /\ wfilm = [w \in Workers |-> 1]
    /\ wi = [w \in Workers |-> 1]
    /\ completed = [w \in Workers |-> <<>>]
    /\ werr = [w \in Workers |-> ""]
    /\ wthumb = [w \in Workers |-> "ok"]
    /\ wtier = [w \in Workers |-> {}]
    /\ wfailTier = [w \in Workers |-> 0]
    /\ wput = [w \in Workers |-> {ThumbnailKey(1)}]
    /\ wlast = [w \in Workers |-> 20]
    /\ wredo = [w \in Workers |-> FALSE]
    /\ tierGo = NoRows
    /\ parserGo = NoRows
    /\ resultChan = NoRows
    /\ errChan = NoRows
    /\ progressChan = <<>>
    /\ delivered = NoRows

TierLoopInit == Qualities \in TierLists /\ TierLoopEntry

\* The head of the tier loop, as the run over the two declared tiers reaches it.
DeclaredTierLoopEntry == Qualities = DeclaredQualities /\ TierLoopEntry

TierLoopNext ==
    \E w \in Workers :
        \/ ProcessJobTranscode(w)
        \/ ProcessJobUploadHLS(w)
        \/ ProcessJobTierProgress(w)

TierLoopSpec == TierLoopInit /\ [][TierLoopNext]_vars

\* ------------------------------------------------------ the tier goroutines
\* The tier loop with its goroutines and channels: per tier ProcessJob makes
\* resultChan and errChan (capacity 1 each), starts a goroutine that calls
\* TranscodeToHLS, and waits in a select on the two channels.  TranscodeToHLS
\* starts a parser goroutine that sends on the run's progressChan, which has
\* capacity ProgressChanCap and no receiver.
ProgressChanCap == 100

Put(f, k, v) == [x \in DOMAIN f \cup {k} |-> IF x = k THEN v ELSE f[x]]

\* The worker process has not died.
Alive == \A w \in Workers : wpc[w] # "crashed"

\* processor.go:87-98 make the tier's two channels and start its goroutine.
SpawnTier(w) ==
    /\ wpc[w] = "transcode"
    /\ wtier' = [wtier EXCEPT ![w] = @ \cup {wi[w]}]
    /\ tierGo' = Put(tierGo, wi[w], "spawned")
    /\ parserGo' = Put(parserGo, wi[w], "none")
    /\ resultChan' = Put(resultChan, wi[w], <<>>)
    /\ errChan' = Put(errChan, wi[w], <<>>)
    /\ delivered' = Put(delivered, wi[w], 0)
    /\ Goto(w, "select")
    /\ UNCHANGED <<Qualities, store, redis, objects, api, ctxDone, wfilm, wi,
                   completed, werr, wthumb, wfailTier, wput, wlast, wredo,
                   progressChan>>

\* main.go:234-292 TranscodeToHLS builds the command and starts its parser
\* goroutine, then calls cmd.Run().
TranscodeToHLSStart(k) ==
    /\ Alive
    /\ k \in DOMAIN tierGo
    /\ tierGo[k] = "spawned"
    /\ tierGo' = [tierGo EXCEPT ![k] = "cmdRun"]
    /\ parserGo' = [parserGo EXCEPT ![k] = "reading"]
    /\ UNCHANGED <<Qualities, store, redis, objects, api, ctxDone, wpc, wloc,
                   resultChan, errChan, progressChan, delivered>>

\* A TranscodeToHLS that waits for its parser goroutine to end before it
\* returns.
TranscodeToHLSReturnJoinsParser(k) ==
    /\ Alive
    /\ k \in DOMAIN tierGo
    /\ tierGo[k] = "cmdRun"
    /\ parserGo[k] = "ended"
    /\ \/ /\ Len(errChan[k]) < 1
          /\ errChan' = [errChan EXCEPT ![k] = Append(@, "err")]
          /\ UNCHANGED resultChan
       \/ /\ Len(resultChan[k]) < 1
          /\ resultChan' = [resultChan EXCEPT ![k] = Append(@, IndexData)]
          /\ UNCHANGED errChan
    /\ delivered' = [delivered EXCEPT ![k] = @ + 1]
    /\ tierGo' = [tierGo EXCEPT ![k] = "ended"]
    /\ UNCHANGED <<Qualities, store, redis, objects, api, ctxDone, wpc, wloc,
                   parserGo, progressChan>>

\* main.go:294-307 and processor.go:92-97: cmd.Run() has returned (ffmpeg
\* ends); TranscodeToHLS returns an error or, the index file read, a result,
\* and the goroutine sends it on errChan or resultChan and ends.
TranscodeToHLSReturn(k) ==
    /\ Alive
    /\ k \in DOMAIN tierGo
    /\ tierGo[k] = "cmdRun"
    /\ \/ /\ Len(errChan[k]) < 1
          /\ errChan' = [errChan EXCEPT ![k] = Append(@, "err")]
          /\ UNCHANGED resultChan
       \/ /\ Len(resultChan[k]) < 1
          /\ resultChan' = [resultChan EXCEPT ![k] = Append(@, IndexData)]
          /\ UNCHANGED errChan
    /\ delivered' = [delivered EXCEPT ![k] = @ + 1]
    /\ tierGo' = [tierGo EXCEPT ![k] = "ended"]
    /\ UNCHANGED <<Qualities, store, redis, objects, api, ctxDone, wpc, wloc,
                   parserGo, progressChan>>

\* main.go:273-292 one round of the parser: stderr.Read returns EOF (break),
\* or bytes without a progress line, or bytes with one, which it sends on
\* progressChan; on a full channel the send blocks for good.  The buffer is
\* written by cmd.Run() at the same time without synchronisation: a read
\* that overlaps a write may also end the process.
ParserRead(k) ==
    /\ Alive
    /\ k \in DOMAIN parserGo
    /\ parserGo[k] = "reading"
    /\ \/ /\ parserGo' = [parserGo EXCEPT ![k] = "ended"]
          /\ UNCHANGED <<progressChan, wpc>>
       \/ UNCHANGED <<parserGo, progressChan, wpc>>
       \/ /\ IF Len(progressChan) < ProgressChanCap
             THEN progressChan' = Append(progressChan, "ms") /\ UNCHANGED parserGo
             ELSE parserGo' = [parserGo EXCEPT ![k] = "blocked"]
                  /\ UNCHANGED progressChan
          /\ UNCHANGED wpc
       \/ /\ tierGo[k] = "cmdRun"
          /\ wpc' = [w \in DOMAIN wpc |-> "crashed"]
          /\ UNCHANGED <<parserGo, progressChan>>
    /\ UNCHANGED <<Qualities, store, redis, objects, api, ctxDone, wloc,
                   tierGo, resultChan, errChan, delivered>>

\* processor.go:100-114 the select: a value from errChan goes to markFailed,
\* a value from resultChan to uploadHLSFiles.
ProcessJobSelect(w) ==
    /\ wpc[w] = "select"
    /\ \/ /\ errChan[wi[w]] # <<>>
          /\ errChan' = [errChan EXCEPT ![wi[w]] = Tail(@)]
          /\ Fail(w, "failed to transcode")
          /\ wfailTier' = [wfailTier EXCEPT ![w] = wi[w]]
          /\ UNCHANGED resultChan
       \/ /\ resultChan[wi[w]] # <<>>
          /\ resultChan' = [resultChan EXCEPT ![wi[w]] = Tail(@)]
          /\ Goto(w, "uploadHLS")
          /\ UNCHANGED <<errChan, werr, wfailTier>>
    /\ UNCHANGED <<Qualities, store, redis, objects, api, ctxDone, wfilm, wi,
                   completed, wthumb, wtier, wput, wlast, wredo,
                   tierGo, parserGo, progressChan, delivered>>

\* The steps of ProcessJob's goroutine in the tier loop.
TierLoopRun(w) ==
    \/ SpawnTier(w)
    \/ ProcessJobSelect(w)
    \/ ProcessJobUploadHLS(w)
    \/ ProcessJobTierProgress(w)

\* The steps of the tier goroutines.
TierGoRun == \E k \in DOMAIN tierGo : TranscodeToHLSStart(k) \/ TranscodeToHLSReturn(k)

TierGoNext ==
    \/ \E w \in Workers : TierLoopRun(w)
    \/ TierGoRun
    \/ \E k \in DOMAIN parserGo : ParserRead(k)

\* Runnable goroutines are scheduled and ffmpeg ends; the parser, whose reads
\* race with the process's output, is promised nothing.
TierGoSpec ==
    /\ DeclaredTierLoopEntry
    /\ [][TierGoNext]_vars
    /\ WF_vars((\E w \in Workers : TierLoopRun(w)) \/ TierGoRun)

\* ------------------------------------------------------- a pool of workers
\* Two worker processes on the same Redis list and the same database.  No
\* source is uploaded, so every run ends at its download.
Pool == {"w1", "w2"}

PoolInit ==
    /\ Qualities = DeclaredQualities
    /\ nextUUID = 1
    /\ films = NoRows
    /\ transcode_jobs = {}
    /\ video_assets = {}
    /\ queue = <<>>
    /\ cache = NoRows
    /\ objects = NoRows
    /\ uploadURLs = {}
    /\ confirm = NoRows
    /\ redelivered = 0
    /\ rejected = NULL
    /\ ctxDone = [w \in Pool |-> FALSE]
    /\ wpc = [w \in Pool |-> "idle"]
    /\ wfilm = [w \in Pool |-> 0]
    /\ wi = [w \in Pool |-> 1]
    /\ completed = [w \in Pool |-> <<>>]
    /\ werr = [w \in Pool |-> ""]
    /\ wthumb = [w \in Pool |-> "none"]
    /\ wtier = [w \in Pool |-> {}]
    /\ wfailTier = [w \in Pool |-> 0]
    /\ wput = [w \in Pool |-> {}]
    /\ wlast = [w \in Pool |-> -1]
    /\ wredo = [w \in Pool |-> FALSE]
    /\ tierGo = NoRows
    /\ parserGo = NoRows
    /\ resultChan = NoRows
    /\ errChan = NoRows
    /\ progressChan = <<>>
    /\ delivered = NoRows

PoolNext ==
    \/ \E u \in Creators : CreateFilm(u)
    \/ \E u \in Users, f \in FilmIDs : ConfirmUploadCreate(u, f)
    \/ \E f \in FilmIDs : ConfirmUploadEnqueue(f)
    \/ \E f \in FilmIDs : Redeliver(f)
    \/ \E w \in Pool :
          \/ DequeueNoWork(w)
          \/ DequeueTranscodeJob(w)
          \/ ProcessJobStart(w)
          \/ ProcessJobDownload(w)
          \/ markFailedJob(w)
          \/ markFailedFilm(w)
          \/ WorkerContinue(w)

PoolSpec == PoolInit /\ [][PoolNext]_vars

\* ------------------------------------------------------- foreign items
\* The list is a plain Redis key: an external actor can push any text on it.
\* The texts of the model that are no film id: one that uuid.Parse rejects,
\* and the text of the nil id.
ForeignItems == {<<"text", 0>>, UUIDString(UUIDNil)}

EnqueueForeign(item) ==
    /\ redelivered < MaxRedeliver
    /\ redelivered' = redelivered + 1
    /\ queue' = <<item>> \o queue
    /\ UNCHANGED <<Qualities, store, cache, objects, uploadURLs, confirm,
                   nextUUID, rejected, worker>>

\* The upload handlers and one worker; no source is uploaded, so every run
\* ends at its download.
ForeignNext ==
    \/ \E u \in Creators : CreateFilm(u)
    \/ \E u \in Users, f \in FilmIDs : ConfirmUploadCreate(u, f)
    \/ \E f \in FilmIDs : ConfirmUploadEnqueue(f)
    \/ \E item \in ForeignItems : EnqueueForeign(item)
    \/ \E w \in Workers :
          \/ Shutdown(w)
          \/ WorkerStop(w)
          \/ DequeueNoWork(w)
          \/ DequeueTranscodeJob(w)
          \/ ProcessJobStart(w)
          \/ ProcessJobDownload(w)
          \/ markFailedJob(w)
          \/ markFailedFilm(w)
          \/ WorkerContinue(w)

ForeignSpec == Init /\ [][ForeignNext]_vars

\* ------------------------------------------------------- several films
\* One worker and MaxQueued films, created by the same creator, whose uploads
\* are confirmed in any order; no source is uploaded, so every run ends at its
\* download.
MaxQueued == 3

QueuedFilmsInit ==
    /\ Qualities = DeclaredQualities
    /\ nextUUID = MaxQueued + 1
    /\ films = [f \in 1..MaxQueued |->
                   [status |-> StatusDraft, hls_master_url |-> NULL,
                    thumbnail_url |-> NULL, created_by_id |-> "alice",
                    published |-> FALSE]]
    /\ transcode_jobs = {}
    /\ video_assets = {}
    /\ queue = <<>>
    /\ cache = NoRows
    /\ objects = NoRows
    /\ uploadURLs = {}
    /\ confirm = [f \in 1..MaxQueued |-> "none"]
    /\ redelivered = 0
    /\ rejected = NULL
    /\ ctxDone = [w \in Workers |-> FALSE]
    /\ wpc = [w \in Workers |-> "idle"]
    /\ wfilm = [w \in Workers |-> 0]
    /\ wi = [w \in Workers |-> 1]
    /\ completed = [w \in Workers |-> <<>>]
    /\ werr = [w \in Workers |-> ""]
    /\ wthumb = [w \in Workers |-> "none"]
    /\ wtier = [w \in Workers |-> {}]
    /\ wfailTier = [w \in Workers |-> 0]
    /\ wput = [w \in Workers |-> {}]
    /\ wlast = [w \in Workers |-> -1]
    /\ wredo = [w \in Workers |-> FALSE]
    /\ tierGo = NoRows
    /\ parserGo = NoRows
    /\ resultChan = NoRows
    /\ errChan = NoRows
    /\ progressChan = <<>>
    /\ delivered = NoRows

QueuedFilmsNext ==
    \/ \E u \in Users, f \in FilmIDs : ConfirmUploadCreate(u, f)
    \/ \E f \in FilmIDs : ConfirmUploadEnqueue(f)
    \/ \E w \in Workers :
          \/ DequeueNoWork(w)
          \/ DequeueTranscodeJob(w)
          \/ ProcessJobStart(w)
          \/ ProcessJobDownload(w)
          \/ markFailedJob(w)
          \/ markFailedFilm(w)
          \/ WorkerContinue(w)

QueuedFilmsSpec == QueuedFilmsInit /\ [][QueuedFilmsNext]_vars

\* ----------------------------------------------------------------- claims
Ended(w) == wpc[w] \in {"returnNil", "returnErr"}

InRun(w) == wpc[w] \notin {"idle", "stopped"}

CacheIs(filmID, status) == filmID \in DOMAIN cache /\ cache[filmID] = status

\* C1: in every reachable state a film's hls_master_url is non-null if and
\* only if the film's status is READY.
C1_ManifestIffReady ==
    \A f \in FilmIDs :
        (films[f].hls_master_url # NULL) <=> (films[f].status = StatusReady)

\* C2: within one ProcessJob run the progress values written one after another
\* (10, 20, the tier values, 100, markFailed's value) never decrease.
C2_ProgressNonDecreasing ==
    [][\A w \in Workers :
          (wlast[w] # -1 /\ wlast'[w] # -1) => wlast'[w] >= wlast[w]]_vars

\* C3: a ProcessJob run that began when the film's job had already ended
\* (READY or FAILED) changes neither the job row, nor the film row, nor the
\* content of an object already stored.
C3_RedeliveryLeavesTerminal ==
    [][\A w \in Workers :
          (wredo[w] /\ InRun(w) /\ wpc'[w] # wpc[w]) =>
              /\ {r \in transcode_jobs' : r.film_id = wfilm[w]} = JobsOf(wfilm[w])
              /\ films'[wfilm[w]] = films[wfilm[w]]
              /\ \A k \in DOMAIN objects : objects'[k] = objects[k]]_vars

\* C4: whenever ProcessJob returns an error, the job row and the film row are
\* FAILED, the job row carries the error text, and the cache entry is FAILED.
C4_ErrorIsPersisted ==
    \A w \in Workers :
        wpc[w] = "returnErr" =>
            /\ \E r \in JobsOf(wfilm[w]) :
                  r.status = StatusFailed /\ r.error \notin {NULL, Some("")}
            /\ films[wfilm[w]].status = StatusFailed
            /\ CacheIs(wfilm[w], StatusFailed)

\* C5: no failure inside a job stops the worker: ProcessJob always returns to
\* workerLoop, the worker process never dies in a job.
C5_WorkerNeverCrashes == \A w \in Workers : wpc[w] # "crashed"

\* C6: when the transcode of tier k failed, the run ends with job and film
\* FAILED, no tier after k was transcoded or uploaded, and no master manifest
\* was uploaded.
C6_TierFailureIsFatal ==
    \A w \in Workers :
        (wpc[w] = "returnErr" /\ wfailTier[w] > 0) =>
            /\ \E r \in JobsOf(wfilm[w]) : r.status = StatusFailed
            /\ films[wfilm[w]].status = StatusFailed
            /\ \A k \in wtier[w] : k <= wfailTier[w]
            /\ \A k \in 1..Len(Qualities) :
                  k >= wfailTier[w] =>
                      HLSFileKey(wfilm[w], Qualities[k], "index.m3u8") \notin wput[w]
            /\ MasterKey(wfilm[w]) \notin wput[w]

\* C7: a run of the declared two tiers in which the download, the probe, every
\* tier and the manifest upload succeeded ends with the job READY at progress 100 and the film READY
\* with its manifest URL set.
C7_SuccessEndsReady ==
    \A w \in Workers :
        (Ended(w) /\ Qualities = DeclaredQualities
                  /\ completed[w] = Qualities
                  /\ MasterKey(wfilm[w]) \in wput[w]) =>
            /\ \E r \in JobsOf(wfilm[w]) :
                  r.status = StatusReady /\ r.progress = 100
            /\ films[wfilm[w]].status = StatusReady
            /\ films[wfilm[w]].hls_master_url # NULL

\* C8: when ProcessJob ends, the film has as many video_assets rows as tiers
\* completed in the run.
C8_OneRowPerCompletedTier ==
    \A w \in Workers :
        Ended(w) =>
            Cardinality({r \in video_assets : r.film_id = wfilm[w]})
                = Len(completed[w])

\* C9: a run whose thumbnail extraction failed and whose two tiers both
\* succeeded ends with the job READY, the film's manifest URL set and the film's
\* thumbnail URL null.
C9_ThumbnailFailureLeavesNull ==
    \A w \in Workers :
        (wpc[w] = "returnNil" /\ wthumb[w] = "genfail"
                               /\ Qualities = DeclaredQualities
                               /\ completed[w] = Qualities) =>
            /\ \E r \in JobsOf(wfilm[w]) : r.status = StatusReady
            /\ films[wfilm[w]].hls_master_url # NULL
            /\ films[wfilm[w]].thumbnail_url = NULL

\* C10: with no quality tier configured a run never gets past the manifest
\* build: it uploads no manifest, does not return success and does not make
\* the film READY.
C10_ZeroTierFailsFast ==
    Qualities = <<>> =>
        \A w \in Workers :
            /\ MasterKey(wfilm[w]) \notin wput[w]
            /\ wpc[w] \notin {"updateFilm", "jobReady", "cacheReady", "returnNil"}
            /\ InRun(w) => films[wfilm[w]].status # StatusReady

\* A step of workerLoop that starts no job: the dequeue timed out or failed,
\* or the loop saw ctx.Done().
IdlePoll(w) == DequeueNoWork(w) \/ WorkerStop(w)

\* C11: a workerLoop step whose dequeue brought no work writes nothing to
\* films, transcode_jobs or video_assets; and an idle loop whose context has
\* been cancelled stops.
C11_IdleLoopWritesNothingAndStops ==
    /\ [][\A w \in Workers : IdlePoll(w) => UNCHANGED store]_vars
    /\ \A w \in Workers :
          (wpc[w] = "idle" /\ ctxDone[w]) ~> (wpc[w] = "stopped")

\* The worker stopped from its idle loop with the queue empty and a job row
\* still as ConfirmUpload inserted it.
C11_Witness ==
    \E w \in Workers :
        /\ wpc[w] = "stopped"
        /\ queue = <<>>
        /\ \E r \in transcode_jobs : r.status = StatusUploaded /\ r.progress = 0

\* Worker w is at stage pc of a run for filmID in which master.m3u8 has been
\* uploaded.
AfterMasterUpload(w, filmID, pc) ==
    /\ wpc[w] = pc
    /\ wfilm[w] = filmID
    /\ MasterKey(filmID) \in wput[w]
    /\ MasterKey(filmID) \in DOMAIN objects

\* C12: a film row becomes READY only by the film update of a ProcessJob run
\* that has uploaded the master manifest, a job row becomes READY only by the
\* READY write of such a run, and the job row then has progress 100.
C12_ReadyOnlyAfterMasterUpload ==
    [][/\ \A f \in FilmIDs :
             (films[f].status # StatusReady /\ films'[f].status = StatusReady) =>
                 \E w \in Workers : AfterMasterUpload(w, f, "updateFilm")
       /\ \A r \in transcode_jobs : \A s \in transcode_jobs' :
             (s.id = r.id /\ r.status # StatusReady /\ s.status = StatusReady) =>
                 /\ s.progress = 100
                 /\ \E w \in Workers : AfterMasterUpload(w, r.film_id, "jobReady")]_vars

\* The film of a run was TRANSCODING, its manifest is uploaded, and the film
\* update has just made it READY.
C12_Witness ==
    \E w \in Workers :
        /\ AfterMasterUpload(w, wfilm[w], "jobReady")
        /\ films[wfilm[w]].status = StatusReady
        /\ confirm[wfilm[w]] = "ok"

\* C13: once the first status write of a run has succeeded and the run is
\* about to download, the film's job row is persisted as TRANSCODING with
\* progress 10.
C13_TranscodingPersistedFirst ==
    \A w \in Workers :
        wpc[w] = "download" =>
            \E r \in JobsOf(wfilm[w]) :
                r.status = StatusTranscoding /\ r.progress = 10

C15_PersistenceFailureIsFatal ==
    \A w \in Workers :
        /\ wpc[w] = "thumbnail" => wlast[w] = 20
        /\ (wpc[w] \in {"transcode", "master"} /\ wi[w] > 1) =>
               wlast[w] = TierProgress(wi[w] - 2, Len(Qualities))
        /\ wpc[w] = "cacheReady" => wlast[w] = 100

\* C16: for every tier count n >= 1 the progress written after tier i
\* (0-based) is 20 + (i+1) * (60 / n), and the progress written after the last
\* tier is exactly 80.
C16_LastTierProgressIs80 ==
    [][\A w \in Workers :
          (wpc[w] = "tierProgress" /\ wlast'[w] # wlast[w]) =>
              /\ wlast'[w] = 20 + wi[w] * (60 \div Len(Qualities))
              /\ wi[w] = Len(Qualities) => wlast'[w] = 80]_vars

\* C17: with the declared tiers, no film row is ever seen with its manifest
\* URL set while its status is TRANSCODING.
C17_NoManifestWhileTranscoding ==
    Qualities = DeclaredQualities =>
        \A f \in FilmIDs :
            films[f].hls_master_url # NULL => films[f].status # StatusTranscoding

\* C18: every change of a film row's or a job row's status is one of
\* DRAFT -> UPLOADED, UPLOADED -> TRANSCODING, TRANSCODING -> READY,
\* TRANSCODING -> FAILED.
C18_StatusFollowsEdges ==
    [][LET Edges == { <<StatusDraft, StatusUploaded>>,
                      <<StatusUploaded, StatusTranscoding>>,
                      <<StatusTranscoding, StatusReady>>,
                      <<StatusTranscoding, StatusFailed>> }
       IN /\ \A f \in FilmIDs :
                films'[f].status # films[f].status =>
                    <<films[f].status, films'[f].status>> \in Edges
          /\ \A r \in transcode_jobs : \A s \in transcode_jobs' :
                (s.id = r.id /\ s.status # r.status) =>
                    <<r.status, s.status>> \in Edges]_vars

\* The film ids pushed on the queue so far: one by each ConfirmUpload that is
\* past its enqueue, one by each redelivery.
Enqueued ==
    Cardinality({f \in FilmIDs : confirm[f] \in {"update", "cache", "ok"}})
        + redelivered

\* C19: with two workers on one queue, a worker enters ProcessJob only by
\* taking the tail entry off the queue, no other worker moves in that step,
\* and the entries still queued plus the runs in progress never exceed the
\* ids enqueued.
C19_OneWorkerPerEnqueue ==
    /\ [](Len(queue) + Cardinality({w \in Pool : InRun(w)}) <= Enqueued)
    /\ [][\A w \in Pool :
             (wpc[w] = "idle" /\ wpc'[w] = "start") =>
                 /\ queue # <<>>
                 /\ queue' = SubSeq(queue, 1, Len(queue) - 1)
                 /\ UUIDString(wfilm'[w]) = queue[Len(queue)]
                 /\ \A v \in Pool \ {w} :
                       wpc'[v] = wpc[v] /\ wfilm'[v] = wfilm[v]]_vars

\* One id was enqueued and both workers were polling: one of them is in its
\* run, the other still idle, the queue empty.
C19_Witness ==
    \E w \in Pool : \E v \in Pool \ {w} :
        /\ wpc[w] = "start"
        /\ wpc[v] = "idle"
        /\ queue = <<>>
        /\ Enqueued = 1

\* C20: a ConfirmUpload call turns to its success response only after it has
\* enqueued the film id once, and turns to a failure response only from a
\* position before its enqueue, leaving the queue as it was.
C20_ConfirmEnqueuesOnceOrNothing ==
    [][\A f \in FilmIDs :
          /\ (confirm[f] # "ok" /\ confirm'[f] = "ok") => confirm[f] = "cache"
          /\ (confirm[f] # "failed" /\ confirm'[f] = "failed") =>
                 (confirm[f] = "enqueue" /\ queue' = queue)]_vars

\* C21: there is at most one job row per film, and a ConfirmUpload by the
\* owner for a film that already has a job row adds no row, leaves the queue
\* as it was and is answered with an error.
C21_OneJobPerFilm ==
    /\ [](\A r \in transcode_jobs : \A s \in transcode_jobs :
             r.film_id = s.film_id => r = s)
    /\ [][\A u \in Users : \A f \in FilmIDs :
             (/\ JobsOf(f) # {}
              /\ ConfirmUploadCreate(u, f) \/ ConfirmUploadDuplicate(u, f)) =>
                 /\ transcode_jobs' = transcode_jobs
                 /\ queue' = queue
                 /\ rejected' = Refusal("ConfirmUpload", u, f, 500)]_vars

\* The owner's second ConfirmUpload was refused with 500 after the first had
\* created the job row and enqueued the film.
C21_Witness ==
    \E f \in FilmIDs :
        /\ rejected = Refusal("ConfirmUpload", films[f].created_by_id, f, 500)
        /\ Cardinality(JobsOf(f)) = 1
        /\ confirm[f] = "ok"
        /\ queue = <<UUIDString(f)>>

\* C22: video_assets never holds two rows for one (film, quality) pair, and a
\* CreateVideoAsset for a pair that has a row leaves the number of rows as it
\* was and sets that row's URL and size to the new values.
C22_OneAssetPerFilmQuality ==
    /\ [](\A r \in video_assets : \A s \in video_assets :
             (r.film_id = s.film_id /\ r.quality = s.quality) => r = s)
    /\ [][\A f \in FilmIDs : \A i \in DOMAIN DeclaredQualities :
          \A url \in AssetURLs(f, DeclaredQualities[i]) : \A size \in AssetSizes :
             (/\ WriteVideoAsset(f, DeclaredQualities[i], url, size)
              /\ \E r \in video_assets :
                    r.film_id = f /\ r.quality = DeclaredQualities[i]) =>
                 /\ Cardinality(video_assets') = Cardinality(video_assets)
                 /\ \E s \in video_assets' :
                       /\ s.film_id = f
                       /\ s.quality = DeclaredQualities[i]
                       /\ s.hls_index_url = url
                       /\ s.size_bytes = size]_vars

\* A pair was written twice with different URL and size: one row, holding the
\* values of the later write under the id of the first.
C22_Witness ==
    /\ nextUUID = 4
    /\ \E r \in video_assets :
          /\ r.id = 2
          /\ r.size_bytes = 2048
          /\ r.hls_index_url = GetPublicURL(HLSFileKey(r.film_id, r.quality, "playlist.m3u8"))
    /\ Cardinality(video_assets) = 1

\* C23: a master manifest stored by a run has, after its two header lines, one
\* stream entry per configured tier, in the declared order: the k-th entry
\* carries the k-th tier's bandwidth and resolution and its URI names the k-th
\* tier's directory.
C23_ManifestListsTiersInOrder ==
    \A f \in FilmIDs :
        MasterKey(f) \in DOMAIN objects =>
            LET m == objects[MasterKey(f)]
            IN /\ Len(m) = 2 + 2 * Len(Qualities)
               /\ \A k \in 1..Len(Qualities) :
                     /\ m[2 * k + 1] = <<"#EXT-X-STREAM-INF", bitrates(Qualities[k]),
                                         resolutions(Qualities[k])>>
                     /\ m[2 * k + 2][Len(m[2 * k + 2]) - 1] = Qualities[k]
                     /\ m[2 * k + 2][Len(m[2 * k + 2])] = "index.m3u8"

\* A run over the two declared tiers returned success and its manifest lists
\* 360p, then 720p.
C23_Witness ==
    \E w \in Workers :
        /\ wpc[w] = "returnNil"
        /\ completed[w] = DeclaredQualities
        /\ MasterKey(wfilm[w]) \in wput[w]
        /\ objects[MasterKey(wfilm[w])] =
              << <<"#EXTM3U">>, <<"#EXT-X-VERSION:3">>,
                 <<"#EXT-X-STREAM-INF", 800000, "640x360">>,
                 <<"360p", "360p", "index.m3u8">>,
                 <<"#EXT-X-STREAM-INF", 2500000, "1280x720">>,
                 <<"720p", "720p", "index.m3u8">> >>

\* C24: when DeleteFilm returns without error, no object is left under any of
\* the film's prefixes, however many there were.
C24_DeleteFilmRemovesAll ==
    [][\A f \in 1..MaxFilms :
          DeleteFilmReturnsNil(f) =>
              \A k \in DOMAIN objects' : k[2] # f]_vars

\* C25: GetUploadURL and ConfirmUpload go past their ownership check only for
\* the film's creator; a request by another user is answered 403 and issues no
\* upload URL, leaves the film row, the job rows and the queue as they were.
C25_OwnerOnly ==
    [][\A u \in Users : \A f \in FilmIDs :
          /\ (GetUploadURL(u, f) \/ ConfirmUploadCreate(u, f)
                                 \/ ConfirmUploadDuplicate(u, f)) =>
                 films[f].created_by_id = u
          /\ (/\ films[f].created_by_id # u
              /\ GetUploadURLForbidden(u, f) \/ ConfirmUploadForbidden(u, f)) =>
                 /\ rejected' \in {Refusal("GetUploadURL", u, f, 403),
                                   Refusal("ConfirmUpload", u, f, 403)}
                 /\ UNCHANGED <<uploadURLs, films, transcode_jobs, queue>>]_vars

\* Another user's ConfirmUpload for a fresh film was answered 403: the film is
\* still DRAFT with no upload URL, no job row and an empty queue.
C25_Witness ==
    \E f \in FilmIDs : \E u \in Users :
        /\ u # films[f].created_by_id
        /\ rejected = Refusal("ConfirmUpload", u, f, 403)
        /\ films[f].status = StatusDraft
        /\ f \notin uploadURLs
        /\ JobsOf(f) = {}
        /\ queue = <<>>

\* C26: with the declared tiers, every URI line of the master manifest a run
\* has uploaded, resolved against the directory of the manifest's own key, is
\* the key of an object the same run uploaded.
C26_ManifestURIsResolve ==
    Qualities = DeclaredQualities =>
        \A w \in Workers :
            MasterKey(wfilm[w]) \in wput[w] =>
                LET key == MasterKey(wfilm[w])
                    m == objects[key]
                IN \A k \in 1..Len(completed[w]) :
                      SubSeq(key, 1, Len(key) - 1) \o m[2 * k + 2] \in wput[w]

\* C27: a run over the declared tiers whose thumbnail could not be generated
\* or uploaded, and whose later stages all succeeded, returns success with
\* the film's job READY.
C27_ThumbnailFailureStillReady ==
    \A w \in Workers :
        (/\ wpc[w] = "returnNil"
         /\ wthumb[w] \in {"genfail", "upfail"}
         /\ Qualities = DeclaredQualities
         /\ completed[w] = Qualities) =>
            \E r \in JobsOf(wfilm[w]) : r.status = StatusReady

\* C28: the queue grows only by a step of ConfirmUpload or of an external
\* actor; no step that ends a failed run changes the queue; and a run starts
\* only by taking an entry off the queue.
C28_WorkerNeverEnqueues ==
    [][/\ Len(queue') > Len(queue) =>
              \E f \in FilmIDs : ConfirmUploadEnqueue(f) \/ Redeliver(f)
       /\ \A w \in Workers :
              /\ (wpc[w] \in {"markFailed", "markFailedFilm", "returnErr"}
                     /\ wpc'[w] # wpc[w]) => queue' = queue
              /\ (wpc[w] # "start" /\ wpc'[w] = "start") =>
                     /\ queue # <<>>
                     /\ UUIDString(wfilm'[w]) = queue[Len(queue)]]_vars

\* A run failed and was recorded on the film; the worker is back in its idle
\* loop and the queue is empty, nobody having enqueued the film again.
C28_Witness ==
    \E w \in Workers : \E f \in FilmIDs :
        /\ wpc[w] = "idle"
        /\ films[f].status = StatusFailed
        /\ queue = <<>>
        /\ redelivered = 0

\* C29: an entry leaves the queue only when a worker that has no run in
\* progress takes it and starts a run, and a worker is back at its poll only
\* after ProcessJob has returned.
C29_OneRunAtATime ==
    [][/\ queue' # queue /\ Len(queue') <= Len(queue) =>
              \E w \in Workers :
                  wpc[w] = "idle" /\ wfilm[w] = 0 /\ wpc'[w] = "start"
       /\ \A w \in Workers :
              /\ (wpc[w] # "start" /\ wpc'[w] = "start") => wpc[w] = "idle"
              /\ (wpc[w] # "idle" /\ wpc'[w] = "idle") =>
                     wpc[w] \in {"returnNil", "returnErr"}]_vars

\* The worker is in the middle of a run while another entry waits on the queue.
C29_Witness ==
    \E w \in Workers :
        /\ wpc[w] = "uploadHLS"
        /\ queue # <<>>

\* C30: once a worker's context is cancelled, the worker makes no call of
\* ProcessJob and takes no entry off the queue.
C30_NoRunAfterShutdown ==
    [][\A w \in Workers :
          /\ ProcessJobStart(w) => ~ctxDone[w]
          /\ (ctxDone[w] /\ wpc'[w] # wpc[w]) => Len(queue') >= Len(queue)]_vars

\* C31: a failed cache write changes no outcome: markFailed goes on to its
\* film update whatever its cache write returned, and a run over the declared
\* tiers that returns success with the cache not showing READY (its READY
\* publish failed) has made both the film and the film's job READY.
C31_CacheFailureChangesNothing ==
    /\ [][\A w \in Workers : markFailedJob(w) => wpc'[w] = "markFailedFilm"]_vars
    /\ [](\A w \in Workers :
             (/\ wpc[w] = "returnNil"
              /\ Qualities = DeclaredQualities
              /\ ~CacheIs(wfilm[w], StatusReady)) =>
                 /\ films[wfilm[w]].status = StatusReady
                 /\ \E r \in JobsOf(wfilm[w]) : r.status = StatusReady)

\* C32: once the worker that took the item a ConfirmUpload call enqueued has
\* written the film's terminal status, the rest of that call overwrites it
\* neither in the film row nor in the status cache.
C32_ConfirmKeepsTerminalStatus ==
    [][\A f \in FilmIDs :
          /\ (/\ ConfirmUploadFilm(f)
              /\ redelivered = 0
              /\ films[f].status \in {StatusReady, StatusFailed}) =>
                 films'[f].status = films[f].status
          /\ (/\ ConfirmUploadCache(f)
              /\ redelivered = 0
              /\ CacheIs(f, StatusReady) \/ CacheIs(f, StatusFailed)) =>
                 cache'[f] = cache[f]]_vars

\* C33: a job-status update a run has issued without error has changed the
\* job row of the run's film, the row ConfirmUpload inserted with that film_id
\* and an id of its own: the row carries the progress last written.
C33_UpdatesReachTheFilmsJob ==
    \A w \in Workers :
        wlast[w] # -1 =>
            \E r \in JobsOf(wfilm[w]) :
                r.id # wfilm[w] /\ r.progress = wlast[w]

\* The film id is on the queue or is the film of a worker's run.
QueuedOrHeld(q, held, filmID) ==
    \/ \E k \in DOMAIN q : q[k] = UUIDString(filmID)
    \/ \E w \in DOMAIN held : held[w] = filmID

\* C34: when ConfirmUpload fails at its enqueue step, the film has no job row
\* in status UPLOADED unless its id is on the queue or held by a worker; and
\* a film whose ConfirmUpload failed with its id neither queued nor held can
\* still be given a job row by a later ConfirmUpload, which then enqueues it.
C34_NoJobLostBeforeQueue ==
    /\ [][\A f \in FilmIDs :
             (ConfirmUploadEnqueue(f) /\ confirm'[f] = "failed") =>
                 \A r \in transcode_jobs' :
                     (r.film_id = f /\ r.status = StatusUploaded) =>
                         QueuedOrHeld(queue', wfilm', f)]_vars
    /\ [](\A f \in FilmIDs :
             (confirm[f] = "failed" /\ ~QueuedOrHeld(queue, wfilm, f)) =>
                 CanCreateTranscodeJob(transcode_jobs,
                                       [id |-> nextUUID, film_id |-> f,
                                        status |-> StatusUploaded, progress |-> 0,
                                        error |-> NULL]))

\* C35: when a run over the declared tiers, for a film whose ConfirmUpload has
\* returned, issues the READY write for the job and the write succeeds, the
\* film row is already READY with a non-null manifest URL; and every job row
\* that is READY belongs to such a film.
C35_FilmReadyBeforeJobReady ==
    /\ [][\A w \in Workers :
             (/\ ProcessJobReady(w)
              /\ wlast'[w] = 100
              /\ Qualities = DeclaredQualities
              /\ confirm[wfilm[w]] = "ok") =>
                 /\ films[wfilm[w]].status = StatusReady
                 /\ films[wfilm[w]].hls_master_url # NULL]_vars
    /\ [](\A r \in transcode_jobs :
             r.status = StatusReady =>
                 /\ films[r.film_id].status = StatusReady
                 /\ films[r.film_id].hls_master_url # NULL)

\* The tier goroutines that have been started and have not ended.
TierGoRunning == {k \in DOMAIN tierGo : tierGo[k] # "ended"}

\* C36: at most one tier goroutine is running at a time; a tier goroutine
\* sends at most one value, on one of its two channels, never blocks on the
\* send, and has ended exactly when it has sent its value; and the tier loop
\* always comes to its end (the manifest stage or markFailed) unless the
\* process dies, however full the progress channel is.
C36_TiersOneAfterAnother ==
    /\ [](Cardinality(TierGoRunning) <= 1)
    /\ [](\A k \in DOMAIN tierGo :
             /\ delivered[k] <= 1
             /\ (tierGo[k] = "ended") <=> (delivered[k] = 1)
             /\ Len(resultChan[k]) + Len(errChan[k]) <= 1)
    /\ <>(\A w \in Workers : wpc[w] \in {"master", "markFailed", "crashed"})

\* Both tiers were transcoded and uploaded and the run is at its manifest
\* stage, while the progress channel is full and a parser goroutine is stuck
\* on its send.
C36_Witness ==
    \E w \in Workers :
        /\ wpc[w] = "master"
        /\ completed[w] = DeclaredQualities
        /\ Len(progressChan) = ProgressChanCap
        /\ \E k \in DOMAIN parserGo : parserGo[k] = "blocked"
        /\ \A k \in DOMAIN tierGo : tierGo[k] = "ended" /\ delivered[k] = 1

\* C37: a dequeue whose item is no film id (uuid.Parse rejects it, or it is
\* the nil id) takes the item off the queue, writes nothing to the tables,
\* starts no run and leaves the worker at its poll; and a run is only ever
\* for a film id.
C37_ForeignItemIsDropped ==
    /\ [][\A w \in Workers :
             (/\ DequeueTranscodeJob(w)
              /\ queue[Len(queue)] \in ForeignItems) =>
                 /\ queue' = SubSeq(queue, 1, Len(queue) - 1)
                 /\ UNCHANGED store
                 /\ wpc'[w] = "idle"
                 /\ wfilm'[w] = wfilm[w]]_vars
    /\ [](\A w \in Workers :
             wpc[w] \notin {"idle", "stopped"} => wfilm[w] \in FilmIDs)

\* A foreign item was pushed behind a film's id; the worker ran the film's
\* job, then took the foreign item off the queue, and is at its poll again
\* with the tables as the run left them.
C37_Witness ==
    \E w \in Workers : \E f \in FilmIDs :
        /\ redelivered = 1
        /\ confirm[f] = "update"
        /\ queue = <<>>
        /\ wpc[w] = "idle"
        /\ wfilm[w] = UUIDNil
        /\ films[f].status = StatusFailed

\* The films table after a publish request by userID whose transaction
\* commits: the handler's ownership and status checks, then the UPDATE.
AfterPublishFilm(fs, userID, filmID) ==
    IF fs[filmID].created_by_id = userID /\ fs[filmID].status = StatusReady
    THEN PublishFilmQuery(fs, filmID)
    ELSE fs

\* C38: PublishFilm by the owner on a READY film leaves the film READY with
\* published_at set; on a film in any other status it changes nothing.
C38_PublishSetsPublishedAt ==
    \A f \in FilmIDs :
        LET after == AfterPublishFilm(films, films[f].created_by_id, f)
        IN IF films[f].status = StatusReady
           THEN after[f].published /\ after[f].status = StatusReady
           ELSE after = films

\* C39: the queue grows only at its head, by the text of one film id, and
\* shrinks only at its tail, the worker's run being for the id taken there:
\* ids leave the queue in the order in which they entered it.
C39_QueueIsFIFO ==
    [][/\ Len(queue') > Len(queue) =>
              \E f \in FilmIDs : queue' = <<UUIDString(f)>> \o queue
       /\ Len(queue') < Len(queue) =>
              /\ queue' = SubSeq(queue, 1, Len(queue) - 1)
              /\ \E w \in Workers :
                    /\ wpc[w] = "idle" /\ wpc'[w] = "start"
                    /\ UUIDString(wfilm'[w]) = queue[Len(queue)]
       /\ Len(queue') = Len(queue) => queue' = queue]_vars

\* Three ids were enqueued; the worker has the run of one of them while the
\* other two, different ids, wait on the queue.
C39_Witness ==
    \E w \in Workers :
        /\ wpc[w] = "download"
        /\ Len(queue) = 2
        /\ queue[1] # queue[2]
        /\ \A k \in DOMAIN queue : queue[k] # UUIDString(wfilm[w])

====
